---- MODULE Spec2Model ----
(***************************************************************************)
(* Model of the BLE configuration service of zero-stock-screen             *)
(* (src/ble-config-service/ble_config.py): the payload validator, the      *)
(* format-preserving patcher of configuration.cfg, the wifi state reader   *)
(* and provisioner, and the _on_write / _on_read request handlers.         *)
(*                                                                         *)
(* Text is modelled byte for byte: a Python str is a sequence of           *)
(* one-character strings, a file is the flat sequence of its characters.   *)
(* Line indices are 1-based here (Python's are 0-based); a section range   *)
(* <<start, end>> is the header line start and the half-open body          *)
(* start+1 .. end-1, as in the source.                                     *)
(***************************************************************************)
EXTENDS Integers, Sequences, FiniteSets, TLC

VARIABLES
    cfg,        \* configuration.cfg: [exists, data]
    bak,        \* configuration.cfg.bak: [exists, data]
    tmp,        \* the NamedTemporaryFile of the running _write_config
    meta,       \* owner and mode of configuration.cfg
    wpa,        \* /etc/wpa_supplicant/wpa_supplicant.conf: [exists, data]
    net,        \* what the network daemons and systemd have been told
    host,       \* the tools installed on the host and the accounts it knows
    pc,         \* position of the _on_write handler
    req,        \* the payload of the request being handled
    updates,    \* the UpdateSet _validate_updates returned for it
    wc,         \* locals of the running _write_config
    notes,      \* the status notifications sent for the request
    log,        \* the steps attempted for the request, in order
    pre,        \* the files and network state when the request arrived
    nreq,       \* number of requests received
    fn          \* input and result of the function a specification applies

vars == <<cfg, bak, tmp, meta, wpa, net, host, pc, req, updates, wc, notes,
          log, pre, nreq, fn>>

----------------------------------------------------------------------------
(* Sequences and characters *)

Min(S) == CHOOSE x \in S : \A y \in S : x <= y
Max(S) == CHOOSE x \in S : \A y \in S : x >= y

\* str.isspace / the regex class \s, over the characters of the model.
IsSpace(c) == c \in {" ", "\t", "\n", "\r"}

\* First index >= from of s holding a non-space, Len(s)+1 when there is none.
SkipSpace(s, from) ==
    LET idx == {i \in from..Len(s) : ~IsSpace(s[i])}
    IN  IF idx = {} THEN Len(s) + 1 ELSE Min(idx)

\* str.strip()
strip(s) ==
    LET idx == {i \in 1..Len(s) : ~IsSpace(s[i])}
    IN  IF idx = {} THEN <<>> ELSE SubSeq(s, Min(idx), Max(idx))

\* str.rstrip("\n")
rstrip_nl(s) ==
    LET idx == {i \in 1..Len(s) : s[i] # "\n"}
    IN  IF idx = {} THEN <<>> ELSE SubSeq(s, 1, Max(idx))

\* str.endswith("\n")
endswith_nl(s) == s # <<>> /\ s[Len(s)] = "\n"

\* str.startswith(p)
startswith(s, p) == Len(s) >= Len(p) /\ SubSeq(s, 1, Len(p)) = p

\* str.lower(), over the letters of the model.
LowerChar(c) ==
    CASE c = "C" -> "c" [] c = "A" -> "a" [] c = "N" -> "n" [] c = "D" -> "d"
      [] c = "L" -> "l" [] c = "E" -> "e" [] c = "I" -> "i" [] c = "B" -> "b"
      [] c = "X" -> "x" [] c = "R" -> "r"
      [] OTHER -> c
lower(s) == [i \in 1..Len(s) |-> LowerChar(s[i])]

RECURSIVE Concat(_)
\* "".join(lines): what writelines puts in the file.
Concat(ls) == IF ls = <<>> THEN <<>> ELSE Head(ls) \o Concat(Tail(ls))

\* str(int) for n >= 0.
RECURSIVE IntStr(_)
IntStr(n) ==
    LET d == <<"0", "1", "2", "3", "4", "5", "6", "7", "8", "9">>
    IN  IF n < 10 THEN <<d[n + 1]>> ELSE IntStr(n \div 10) \o <<d[(n % 10) + 1]>>

\* str(float) (repr: the shortest text that reads back) of h/100, h >= 0.
FloatStr(h) ==
    LET d == <<"0", "1", "2", "3", "4", "5", "6", "7", "8", "9">>
        f == h % 100
    IN  IntStr(h \div 100) \o <<".">> \o
        (IF f % 10 = 0 THEN <<d[(f \div 10) + 1]>>
         ELSE <<d[(f \div 10) + 1], d[(f % 10) + 1]>>)

----------------------------------------------------------------------------
(* JSON values and Python objects.  t is the type; n the number (an int, a *)
(* bool as 0/1, a float in hundredths); s the text of a str.               *)

Absent    == [t |-> "absent", n |-> 0, s |-> <<>>]
JNull     == [t |-> "null", n |-> 0, s |-> <<>>]
JList     == [t |-> "list", n |-> 0, s |-> <<>>]
JInt(k)   == [t |-> "int", n |-> k, s |-> <<>>]
JBool(b)  == [t |-> "bool", n |-> IF b THEN 1 ELSE 0, s |-> <<>>]
JFloat(h) == [t |-> "float", n |-> h, s |-> <<>>]
JStr(x)   == [t |-> "str", n |-> 0, s |-> x]

\* str(value), as _write_config formats an UpdateSet value.
PyStr(v) ==
    CASE v.t = "int"   -> IntStr(v.n)
      [] v.t = "bool"  -> IF v.n = 1 THEN <<"T", "r", "u", "e">>
                          ELSE <<"F", "a", "l", "s", "e">>
      [] v.t = "float" -> FloatStr(v.n)
      [] OTHER         -> v.s

----------------------------------------------------------------------------
(* Names of the configuration file *)

S_base == <<"b", "a", "s", "e">>
S_epd2in13v3 == <<"e", "p", "d", "2", "i", "n", "1", "3", "v", "3">>
K_refresh_interval_minutes ==
    <<"r", "e", "f", "r", "e", "s", "h", "_", "i", "n", "t", "e", "r", "v",
      "a", "l", "_", "m", "i", "n", "u", "t", "e", "s">>
K_data_range_days ==
    <<"d", "a", "t", "a", "_", "r", "a", "n", "g", "e", "_", "d", "a", "y",
      "s">>
K_data_api_base_url ==
    <<"d", "a", "t", "a", "_", "a", "p", "i", "_", "b", "a", "s", "e", "_",
      "u", "r", "l">>
K_ticker == <<"t", "i", "c", "k", "e", "r">>
K_mode == <<"m", "o", "d", "e">>

----------------------------------------------------------------------------
(* ConfigPatcher: the line buffer *)

NoFile == [exists |-> FALSE, data |-> <<>>]
File(d) == [exists |-> TRUE, data |-> d]

\* open(path, "r") reads with universal newlines: "\r\n" and "\r" become "\n".
RECURSIVE UniversalNewlines(_)
UniversalNewlines(d) ==
    LET cr == {i \in 1..Len(d) : d[i] = "\r"}
    IN  IF cr = {} THEN d
        ELSE LET i == Min(cr)
                 rest == IF i < Len(d) /\ d[i + 1] = "\n" THEN i + 2 ELSE i + 1
             IN  SubSeq(d, 1, i - 1) \o <<"\n">> \o
                 UniversalNewlines(SubSeq(d, rest, Len(d)))

\* Split after every "\n", the terminators kept.
RECURSIVE SplitLines(_)
SplitLines(d) ==
    IF d = <<>> THEN <<>>
    ELSE LET nl == {i \in 1..Len(d) : d[i] = "\n"}
         IN  IF nl = {} THEN <<d>>
             ELSE <<SubSeq(d, 1, Min(nl))>> \o
                  SplitLines(SubSeq(d, Min(nl) + 1, Len(d)))

_read_lines(data) == SplitLines(UniversalNewlines(data))

\* re.match(r"\s*\[(.+?)\]\s*$", line): after leading spaces a "[", then the
\* shortest non-empty name after which "]" and only spaces end the line; so
\* the stripped line runs from "[" to its last "]" with a name in between.
IsHeader(line) ==
    LET s == strip(line)
    IN  Len(s) >= 3 /\ s[1] = "[" /\ s[Len(s)] = "]"

\* match.group(1).strip()
HeaderName(line) ==
    LET s == strip(line) IN strip(SubSeq(s, 2, Len(s) - 1))

_section_ranges(lines) ==
    LET hdr == {i \in 1..Len(lines) : IsHeader(lines[i])}
    IN  [name \in {HeaderName(lines[i]) : i \in hdr} |->
            LET start == Max({i \in hdr : HeaderName(lines[i]) = name})
            IN  <<start, Min({i \in hdr : i > start} \cup {Len(lines) + 1})>>]

_ensure_section(lines, section) ==
    IF section \in DOMAIN _section_ranges(lines) THEN lines
    ELSE LET l1 == IF lines # <<>> /\ ~endswith_nl(lines[Len(lines)])
                   THEN [lines EXCEPT ![Len(lines)] = @ \o <<"\n">>]
                   ELSE lines
             l2 == IF l1 # <<>> /\ strip(l1[Len(l1)]) # <<>>
                   THEN Append(l1, <<"\n">>)
                   ELSE l1
         IN  Append(l2, <<"[">> \o section \o <<"]", "\n">>)

NoMatch == [found |-> FALSE, idx |-> 0, g1 |-> <<>>, g2 |-> <<>>, g3 |-> <<>>]

\* pattern.match(text) for
\*   ^(\s*KEY\s*[:=]\s*)([^#;\n]*)(\s*(#.*)?)$
\* Every quantifier is greedy and no shorter choice can rescue a failed
\* match: group 1 runs through the spaces after the separator, group 2 up to
\* the first "#", ";" or newline, and group 3 must be the rest of the text,
\* which it can be only when the rest is empty or starts with "#".
KeyPatternMatch(text, key) ==
    LET n    == Len(text)
        p    == SkipSpace(text, 1)
        ke   == p + Len(key) - 1
        q    == SkipSpace(text, ke + 1)
        r    == SkipSpace(text, q + 1)
        stops == {i \in r..n : text[i] \in {"#", ";", "\n"}}
        stop == IF stops = {} THEN n + 1 ELSE Min(stops)
    IN  IF /\ ke <= n
           /\ SubSeq(text, p, ke) = key
           /\ q <= n
           /\ text[q] \in {":", "="}
           /\ (stop = n + 1 \/ text[stop] = "#")
        THEN [found |-> TRUE, idx |-> 0,
              g1 |-> SubSeq(text, 1, r - 1),
              g2 |-> SubSeq(text, r, stop - 1),
              g3 |-> SubSeq(text, stop, n)]
        ELSE NoMatch

\* A search that takes the first matching line of the file, whatever section
\* it is in.
_find_key_AnySection(lines, section, key) ==
    LET hits == {i \in 1..Len(lines) :
                    KeyPatternMatch(rstrip_nl(lines[i]), key).found}
    IN  IF hits = {} THEN NoMatch
        ELSE [KeyPatternMatch(rstrip_nl(lines[Min(hits)]), key)
                  EXCEPT !.idx = Min(hits)]

_find_key(lines, section, key) ==
    LET ranges == _section_ranges(lines)
    IN  IF section \notin DOMAIN ranges THEN NoMatch
        ELSE LET start == ranges[section][1]
                 end   == ranges[section][2]
                 hits  == {i \in (start + 1)..(end - 1) :
                              KeyPatternMatch(rstrip_nl(lines[i]), key).found}
             IN  IF hits = {} THEN NoMatch
                 ELSE [KeyPatternMatch(rstrip_nl(lines[Min(hits)]), key)
                           EXCEPT !.idx = Min(hits)]

_set_key(lines, section, key, value) ==
    LET l1    == _ensure_section(lines, section)
        found == _find_key(l1, section, key)
    IN  IF found.found
        THEN [l1 EXCEPT ![found.idx] =
                 found.g1 \o value \o found.g3 \o
                 (IF endswith_nl(l1[found.idx]) THEN <<"\n">> ELSE <<>>)]
        ELSE LET start == _section_ranges(l1)[section][1]
                 end   == _section_ranges(l1)[section][2]
                 nonblank == {i \in (start + 1)..(end - 1) :
                                 strip(l1[i]) # <<>>}
                 insert_at == IF nonblank = {} THEN start + 1
                              ELSE Max(nonblank) + 1
             IN  SubSeq(l1, 1, insert_at - 1) \o
                 <<key \o <<" ", ":", " ">> \o value \o <<"\n">>>> \o
                 SubSeq(l1, insert_at, Len(l1))

\* match.group(2).strip(), None as Absent
_get_value(lines, section, key) ==
    LET found == _find_key(lines, section, key)
    IN  IF found.found THEN JStr(strip(found.g2)) ELSE Absent

----------------------------------------------------------------------------
(* PayloadValidator.  A payload is what json.loads gave: kind says whether *)
(* the bytes decoded to a JSON object; base, epd2in13v3 and wifi say       *)
(* whether the member is absent, a dict or something else, and hold the    *)
(* members of the dict (Absent for a missing key).                         *)

NoBase == [t |-> "absent", refresh_interval_minutes |-> Absent,
           data_range_days |-> Absent, data_api_base_url |-> Absent,
           ticker |-> Absent]
NoEpd  == [t |-> "absent", mode |-> Absent]
NoWifi == [t |-> "absent", ssid |-> Absent, psk |-> Absent, other |-> FALSE]

EmptyPayload == [kind |-> "object", base |-> NoBase, epd2in13v3 |-> NoEpd,
                 wifi |-> NoWifi, restart |-> Absent]

\* The dicts _validate_updates builds; a key is in a dict when its value is
\* not Absent, and a section is in the UpdateSet when its dict is non-empty
\* ("if base_updates: updates['base'] = base_updates").
NoBaseUpdates == [refresh_interval_minutes |-> Absent,
                  data_range_days |-> Absent, data_api_base_url |-> Absent,
                  ticker |-> Absent]
NoEpdUpdates  == [mode |-> Absent]
NoUpdates     == [base |-> NoBaseUpdates, epd2in13v3 |-> NoEpdUpdates]

Has(v) == v.t # "absent"
HasBase(u) == u.base # NoBaseUpdates
HasEpd(u)  == u.epd2in13v3 # NoEpdUpdates
\* bool(updates)
NonEmpty(u) == HasBase(u) \/ HasEpd(u)

\* isinstance(value, int): a Python bool is an int.
IsInstanceInt(v) == v.t \in {"int", "bool"}
\* isinstance(value, (int, float))
IsInstanceNumber(v) == v.t \in {"int", "bool", "float"}
\* float(value), in hundredths
ToFloat(v) == IF v.t = "float" THEN v.n ELSE 100 * v.n

M_candle == <<"c", "a", "n", "d", "l", "e">>
M_line   == <<"l", "i", "n", "e">>

RefreshMin == 1
RefreshMax == 1440
\* 0.1 and 365.0, in hundredths
RangeMin == 10
RangeMax == 36500

Raise(msg) == [ok |-> FALSE, err |-> msg, updates |-> NoUpdates]

\* The checks of the "base" block, in source order; "" when none raises.
BaseError(b) ==
    LET r == b.refresh_interval_minutes
        d == b.data_range_days
        a == b.data_api_base_url
        k == b.ticker
    IN  CASE b.t = "absent" -> ""
          [] b.t # "dict" -> "base must be an object"
          [] Has(r) /\ ~IsInstanceInt(r) -> "refresh_interval_minutes must be int"
          [] Has(r) /\ (r.n < RefreshMin \/ r.n > RefreshMax) ->
                 "refresh_interval_minutes out of range"
          [] Has(d) /\ ~IsInstanceNumber(d) -> "data_range_days must be number"
          [] Has(d) /\ (ToFloat(d) < RangeMin \/ ToFloat(d) > RangeMax) ->
                 "data_range_days out of range"
          [] Has(a) /\ a.t # "str" -> "data_api_base_url must be string"
          [] Has(a) /\ strip(a.s) = <<>> -> "data_api_base_url cannot be empty"
          [] Has(k) /\ k.t # "str" -> "ticker must be string"
          [] Has(k) /\ strip(k.s) = <<>> -> "ticker cannot be empty"
          [] OTHER -> ""

EpdError(e) ==
    CASE e.t = "absent" -> ""
      [] e.t # "dict" -> "epd2in13v3 must be an object"
      [] Has(e.mode) /\ e.mode.t # "str" -> "mode must be string"
      [] Has(e.mode) /\ lower(strip(e.mode.s)) \notin {M_candle, M_line} ->
             "mode must be candle or line"
      [] OTHER -> ""

\* Returns [ok, err, updates]: ok with the UpdateSet, or the ValueError.
_validate_updates(payload) ==
    LET b == payload.base
        e == payload.epd2in13v3
    IN  IF BaseError(b) # "" THEN Raise(BaseError(b))
        ELSE IF EpdError(e) # "" THEN Raise(EpdError(e))
        ELSE [ok |-> TRUE, err |-> "",
              updates |->
                [base |->
                   [refresh_interval_minutes |-> b.refresh_interval_minutes,
                    data_range_days |->
                        IF Has(b.data_range_days)
                        THEN JFloat(ToFloat(b.data_range_days)) ELSE Absent,
                    data_api_base_url |->
                        IF Has(b.data_api_base_url)
                        THEN JStr(strip(b.data_api_base_url.s)) ELSE Absent,
                    ticker |->
                        IF Has(b.ticker) THEN JStr(strip(b.ticker.s))
                        ELSE Absent],
                 epd2in13v3 |->
                   [mode |-> IF Has(e.mode) THEN JStr(lower(strip(e.mode.s)))
                             ELSE Absent]]]

----------------------------------------------------------------------------
(* ConfigPatcher: the in-memory edits of _write_config (lines 164-178) *)

SetIf(lines, section, key, v) ==
    IF Has(v) THEN _set_key(lines, section, key, PyStr(v)) ELSE lines

\* The "if <key> in <section>_updates" tests of lines 164-178, in their order.
Edits(u) ==
    <<<<S_base, K_refresh_interval_minutes, u.base.refresh_interval_minutes>>,
      <<S_base, K_data_range_days, u.base.data_range_days>>,
      <<S_base, K_data_api_base_url, u.base.data_api_base_url>>,
      <<S_base, K_ticker, u.base.ticker>>,
      <<S_epd2in13v3, K_mode, u.epd2in13v3.mode>>>>

RECURSIVE ApplyEdits(_, _)
ApplyEdits(lines, edits) ==
    IF edits = <<>> THEN lines
    ELSE ApplyEdits(SetIf(lines, edits[1][1], edits[1][2], edits[1][3]),
                    Tail(edits))

PatchLines(lines, u) == ApplyEdits(lines, Edits(u))

\* The lines _write_config starts from: the file's, or none when it is missing.
LoadLines(f) == IF f.exists THEN _read_lines(f.data) ELSE <<>>

\* The complete content a _write_config(path, u) over file f persists.
PatchedData(f, u) == Concat(PatchLines(LoadLines(f), u))

----------------------------------------------------------------------------
(* The host, the files' ownership and the state at rest *)

\* os.stat results; some = FALSE is None.
NoStat == [some |-> FALSE, uid |-> "", gid |-> "", mode |-> ""]
Stat(u, g, m) == [some |-> TRUE, uid |-> u, gid |-> g, mode |-> m]

\* The directory of CONFIG_PATH (a checkout in some user's home), and a file
\* NamedTemporaryFile creates (mode 0600, owned by the user the service runs
\* as).
DirStat  == Stat("bob", "staff", "0755")
TempStat == Stat("root", "root", "0600")

\* What the fix-up's system calls did: whether the stat of the directory,
\* the chown and the chmod succeed when they are made.
NoFixup == [dir_ok |-> TRUE, chown_ok |-> TRUE, chmod_ok |-> TRUE]

\* raised_at: the statement of _write_config an OSError came out of.
NoLocals == [existing_stat |-> NoStat, lines |-> <<>>, written |-> 0,
             raised_at |-> "", fixup |-> NoFixup]
NoNet    == [joined |-> <<>>, reconfigures |-> 0, restarts |-> 0]
NoFn     == [op |-> "none"]
NoPre    == [cfg |-> NoFile, bak |-> NoFile, wpa |-> NoFile, net |-> NoNet,
             meta |-> NoStat]

\* A host with NetworkManager, the wpa tools and the pi account.
PiHost == [nmcli |-> TRUE, wpa_passphrase |-> TRUE, iwgetid |-> TRUE,
           pwd_pi |-> TRUE, grp_pi |-> TRUE, pi_gid |-> "pi"]

\* The handler at rest, nothing received yet.
AtRest ==
    /\ pc = "idle"
    /\ req = EmptyPayload
    /\ updates = NoUpdates
    /\ wc = NoLocals
    /\ notes = <<>>
    /\ log = <<>>
    /\ pre = NoPre
    /\ nreq = 0
    /\ tmp = NoFile

----------------------------------------------------------------------------
(* _write_config, step by step.  pc names the statement about to run; the  *)
(* function returns at "wc_ok" and raises OSError at "wc_raised".          *)

\* CONFIG_OWNER_USER/GROUP resolved to ids: None when the user is unknown,
\* the user's primary group when the group is.
\* A host database that never knows the configured user.
_resolve_owner_ids_Unresolved(h) == NoStat

_resolve_owner_ids(h) ==
    IF ~h.pwd_pi THEN NoStat
    ELSE Stat("pi", IF h.grp_pi THEN "pi" ELSE h.pi_gid, "")

\* Lines 156-178: stat and read the file, edit the lines in memory.
WcPrepare ==
    /\ pc = "wc_prepare"
    /\ wc' = [existing_stat |-> IF cfg.exists THEN meta ELSE NoStat,
              lines |-> PatchLines(LoadLines(cfg), updates),
              written |-> 0, raised_at |-> "", fixup |-> NoFixup]
    /\ pc' = "wc_mktemp"
    /\ UNCHANGED <<cfg, bak, tmp, meta, wpa, net, host, req, updates, notes,
                   log, pre, nreq, fn>>

\* Lines 180-181: the temporary file, created empty beside the target.
WcCreateTemp ==
    /\ pc = "wc_mktemp"
    /\ tmp' = File(<<>>)
    /\ pc' = "wc_write"
    /\ UNCHANGED <<cfg, bak, meta, wpa, net, host, req, updates, wc, notes,
                   log, pre, nreq, fn>>

\* A writer without the temporary file: it truncates the target and writes the
\* lines into it.  The design rules this out; C4 must tell the two apart.
WcWriteLine_InPlace ==
    /\ pc = "wc_write"
    /\ wc.written < Len(wc.lines)
    /\ cfg' = File((IF wc.written = 0 THEN <<>> ELSE cfg.data) \o
                   wc.lines[wc.written + 1])
    /\ tmp' = cfg'
    /\ wc' = [wc EXCEPT !.written = @ + 1]
    /\ UNCHANGED <<bak, meta, wpa, net, host, pc, req, updates, notes, log,
                   pre, nreq, fn>>

\* Line 183: writelines reaches the temporary file one line after another.
WcWriteLine ==
    /\ pc = "wc_write"
    /\ wc.written < Len(wc.lines)
    /\ tmp' = File(tmp.data \o wc.lines[wc.written + 1])
    /\ wc' = [wc EXCEPT !.written = @ + 1]
    /\ UNCHANGED <<cfg, bak, meta, wpa, net, host, pc, req, updates, notes,
                   log, pre, nreq, fn>>

\* Lines 184-187: flush, fsync, close.
WcSync ==
    /\ pc = "wc_write"
    /\ wc.written = Len(wc.lines)
    /\ pc' = "wc_backup"
    /\ UNCHANGED <<cfg, bak, tmp, meta, wpa, net, host, req, updates, wc,
                   notes, log, pre, nreq, fn>>

\* Lines 189-190: the prior version, when there is one, copied to <path>.bak.
WcBackup ==
    /\ pc = "wc_backup"
    /\ bak' = IF cfg.exists THEN cfg ELSE bak
    /\ pc' = "wc_replace"
    /\ UNCHANGED <<cfg, tmp, meta, wpa, net, host, req, updates, wc, notes,
                   log, pre, nreq, fn>>

\* Line 191: os.replace renames the temporary file over the target; the
\* target is now the temporary file, with the owner and mode it was made with.
WcReplace ==
    /\ pc = "wc_replace"
    /\ cfg' = tmp
    /\ tmp' = NoFile
    /\ meta' = TempStat
    /\ pc' = "wc_fixup"
    /\ UNCHANGED <<bak, wpa, net, host, req, updates, wc, notes, log, pre,
                   nreq, fn>>

\* Lines 192-207: owner and mode after the rename, for a file whose prior
\* stat was prior (None when it did not exist).  The stat of the directory,
\* the chown and the chmod may each fail with OSError, which is swallowed; a
\* failed chown skips the chmod.
\* A fix-up that looks at the prior version only, never at the directory.
FixupStat_PriorOnly(prior, dir_ok, chown_ok, chmod_ok) ==
    LET owner_ids  == _resolve_owner_ids(host)
        target_ids == IF owner_ids.some THEN owner_ids ELSE prior
    IN  IF target_ids.some /\ chown_ok
        THEN Stat(target_ids.uid, target_ids.gid,
                  IF prior.some /\ chmod_ok THEN prior.mode ELSE TempStat.mode)
        ELSE TempStat

FixupStat(prior, dir_ok, chown_ok, chmod_ok) ==
    LET existing_stat == IF prior.some THEN prior
                         ELSE IF dir_ok THEN DirStat ELSE NoStat
        owner_ids  == _resolve_owner_ids(host)
        target_ids == IF owner_ids.some THEN owner_ids ELSE existing_stat
    IN  IF target_ids.some /\ chown_ok
        THEN Stat(target_ids.uid, target_ids.gid,
                  IF existing_stat.some /\ chmod_ok THEN existing_stat.mode
                  ELSE TempStat.mode)
        ELSE TempStat

WcFixOwner ==
    /\ pc = "wc_fixup"
    /\ \E dir_ok \in BOOLEAN, chown_ok \in BOOLEAN, chmod_ok \in BOOLEAN :
          /\ meta' = FixupStat(wc.existing_stat, dir_ok, chown_ok, chmod_ok)
          /\ wc' = [wc EXCEPT !.fixup = [dir_ok |-> dir_ok,
                                         chown_ok |-> chown_ok,
                                         chmod_ok |-> chmod_ok]]
    /\ pc' = "wc_ok"
    /\ UNCHANGED <<cfg, bak, tmp, wpa, net, host, req, updates, notes,
                   log, pre, nreq, fn>>

\* An OSError out of _write_config: reading the file (line 162), creating
\* the temporary file (180-181), writing or syncing it (183-185), copying the
\* backup (190, which may leave a cut-off .bak) or the rename (191).  The
\* temporary file, made with delete=False, stays.
WcFail ==
    /\ \/ pc = "wc_prepare" /\ cfg.exists /\ bak' = bak
       \/ pc \in {"wc_mktemp", "wc_write", "wc_replace"} /\ bak' = bak
       \/ /\ pc = "wc_backup" /\ cfg.exists
          /\ \E k \in {0, Len(cfg.data) \div 2} :
                bak' \in {bak, File(SubSeq(cfg.data, 1, k))}
    /\ pc' = "wc_raised"
    /\ wc' = [wc EXCEPT !.raised_at = pc]
    /\ UNCHANGED <<cfg, tmp, meta, wpa, net, host, req, updates, notes,
                   log, pre, nreq, fn>>

----------------------------------------------------------------------------
(* NetworkProvisioner: the fallback path's rewrite of the credential file *)

N_network == <<"n", "e", "t", "w", "o", "r", "k", "=", "{">>

\* 'ssid="<ssid>"', the literal re.escape protects.
SsidLiteral(ssid) == <<"s", "s", "i", "d", "=", "\"">> \o ssid \o <<"\"">>

\* lit occurs in text within from..to.
Occurs(text, lit, from, to) ==
    \E j \in from..(to - Len(lit) + 1) : SubSeq(text, j, j + Len(lit) - 1) = lit

\* The passphrase digest wpa_passphrase prints: hex digits fixed by its inputs.
Digest(ssid, psk) == IntStr(16 * Len(ssid) + Len(psk))

\* wpa_passphrase's output, stripped (line 451).
NetworkBlock(ssid, psk) ==
    N_network \o <<"\n", "\t">> \o SsidLiteral(ssid) \o
    <<"\n", "\t", "#", "p", "s", "k", "=", "\"">> \o psk \o
    <<"\"", "\n", "\t", "p", "s", "k", "=">> \o Digest(ssid, psk) \o
    <<"\n", "}">>

\* Where a match of  network=\{[^\}]*ssid="<ssid>"[^\}]*\}\s*  that starts at
\* i ends (the index after it), 0 when none starts there: "network={" at i,
\* the literal before the first "}" that follows, then that "}" and the
\* spaces after it.
BlockMatchEnd(text, ssid, i) ==
    LET b == i + Len(N_network)
        closes == {j \in b..Len(text) : text[j] = "}"}
    IN  IF /\ b - 1 <= Len(text)
           /\ SubSeq(text, i, b - 1) = N_network
           /\ closes # {}
           /\ Occurs(text, SsidLiteral(ssid), b, Min(closes) - 1)
        THEN SkipSpace(text, Min(closes) + 1)
        ELSE 0

RECURSIVE RemoveBlocks(_, _)
\* re.sub(pattern, "", existing): every match, leftmost first, removed.
RemoveBlocks(text, ssid) ==
    LET starts == {i \in 1..Len(text) : BlockMatchEnd(text, ssid, i) # 0}
    IN  IF starts = {} THEN text
        ELSE SubSeq(text, 1, Min(starts) - 1) \o
             RemoveBlocks(SubSeq(text, BlockMatchEnd(text, ssid, Min(starts)),
                                 Len(text)), ssid)

\* Lines 445-461: the credential file's new content.
ProvisionedData(f, ssid, psk) ==
    LET existing == IF f.exists THEN UniversalNewlines(f.data) ELSE <<>>
        removed  == RemoveBlocks(existing, ssid)
        ended    == IF removed # <<>> /\ ~endswith_nl(removed)
                    THEN removed \o <<"\n">> ELSE removed
    IN  ended \o <<"\n">> \o NetworkBlock(ssid, psk) \o <<"\n">>

----------------------------------------------------------------------------
(* The request orchestrator: BleConfigServer._on_write *)

MaxRequests == 1

\* bool(value)
Truthy(v) ==
    CASE v.t \in {"absent", "null"} -> FALSE
      [] v.t = "str" -> v.s # <<>>
      [] v.t \in {"int", "bool", "float"} -> v.n # 0
      [] OTHER -> TRUE

\* "if wifi:": a dict with at least one key.
WifiTruthy(p) ==
    p.wifi.t = "dict" /\ (Has(p.wifi.ssid) \/ Has(p.wifi.psk) \/ p.wifi.other)

ValidationReplies ==
    {"error: wifi must be an object",
     "error: wifi ssid and psk are required",
     "error: wifi ssid and psk must be strings",
     "error: wifi ssid cannot be empty"} \cup
    {"error: " \o m :
        m \in {"base must be an object", "refresh_interval_minutes must be int",
               "refresh_interval_minutes out of range",
               "data_range_days must be number", "data_range_days out of range",
               "data_api_base_url must be string",
               "data_api_base_url cannot be empty", "ticker must be string",
               "ticker cannot be empty", "epd2in13v3 must be an object",
               "mode must be string", "mode must be candle or line"}}

\* Lines 577-610: the reply that ends the request before any step runs, ""
\* when the request passes every check.
EarlyReply(p) ==
    LET v == _validate_updates(p)
        w == p.wifi
    IN  CASE p.kind = "invalid_json" -> "error: invalid json"
          [] p.kind # "object" -> "error: payload must be a JSON object"
          [] w.t = "other" -> "error: wifi must be an object"
          [] ~v.ok -> "error: " \o v.err
          [] WifiTruthy(p) /\ (~Truthy(w.ssid) \/ ~Truthy(w.psk)) ->
                 "error: wifi ssid and psk are required"
          [] WifiTruthy(p) /\ (w.ssid.t # "str" \/ w.psk.t # "str") ->
                 "error: wifi ssid and psk must be strings"
          [] WifiTruthy(p) /\ strip(w.ssid.s) = <<>> ->
                 "error: wifi ssid cannot be empty"
          [] OTHER -> ""

\* The order the prose gives the steps: patcher, provisioner, restart.
StepOrder_ConfigFirst == <<"config", "wifi", "restart">>

\* The order of the handler's blocks: "if wifi:" (598), "if updates:" (617),
\* "if payload.get('restart') is True:" (624).
StepOrder == <<"wifi", "config", "restart">>

Requested(p, u) ==
    {s \in {"wifi", "config", "restart"} :
        \/ s = "wifi" /\ WifiTruthy(p)
        \/ s = "config" /\ NonEmpty(u)
        \/ s = "restart" /\ p.restart = JBool(TRUE)}

Pos(s) == IF s = "validate" THEN 0
          ELSE CHOOSE i \in 1..Len(StepOrder) : StepOrder[i] = s

\* Where the handler goes once step done has succeeded: the next block whose
\* condition holds, or the final self._notify("ok").
NextStep(done, p, u) ==
    LET later == {s \in Requested(p, u) : Pos(s) > Pos(done)}
    IN  IF later = {} THEN "notify_ok"
        ELSE CHOOSE s \in later : \A t \in later : Pos(s) <= Pos(t)

Entry(step, res) == [step |-> step, res |-> res]

Snapshot == [cfg |-> cfg, bak |-> bak, wpa |-> wpa, net |-> net, meta |-> meta]

\* The write callback receives value: decode, check, validate (577-610).
OnWrite(p) ==
    /\ pc \in {"idle", "done", "raised"}
    /\ nreq < MaxRequests
    /\ nreq' = nreq + 1
    /\ req' = p
    /\ pre' = Snapshot
    /\ wc' = NoLocals
    /\ IF p.kind = "invalid_utf8"
       THEN \* bytes.decode raises UnicodeDecodeError, which nothing catches
            /\ pc' = "raised"
            /\ notes' = <<>>
            /\ log' = <<>>
            /\ updates' = NoUpdates
       ELSE IF EarlyReply(p) # ""
       THEN /\ pc' = "done"
            /\ notes' = <<EarlyReply(p)>>
            /\ log' = IF p.kind = "object" /\ p.wifi.t # "other"
                      THEN <<Entry("validate",
                                   IF _validate_updates(p).ok THEN "ok"
                                   ELSE "failed")>>
                      ELSE <<>>
            /\ updates' = NoUpdates
       ELSE /\ updates' = _validate_updates(p).updates
            /\ pc' = NextStep("validate", p, updates')
            /\ notes' = <<>>
            /\ log' = <<Entry("validate", "ok")>>
    /\ UNCHANGED <<cfg, bak, tmp, meta, wpa, net, host, fn>>

\* A handler that notes the failure and goes on to the next requested step.
Fail_Continue(step, msg) ==
    /\ pc' = NextStep(step, req, updates)
    /\ notes' = Append(notes, msg)
    /\ log' = Append(log, Entry(step, "failed"))

\* "self._notify(error); return": the failure of a step ends the request.
Fail(step, msg) ==
    /\ pc' = "done"
    /\ notes' = Append(notes, msg)
    /\ log' = Append(log, Entry(step, "failed"))

\* _provision_wifi through nmcli (430-436), and the handler's lines 611-615.
ProvisionNmcli ==
    /\ pc = "wifi"
    /\ host.nmcli
    /\ \/ /\ net' = [net EXCEPT !.joined = strip(req.wifi.ssid.s)]
          /\ pc' = NextStep("wifi", req, updates)
          /\ log' = Append(log, Entry("wifi", "ok"))
          /\ notes' = notes
       \/ /\ net' = net
          /\ Fail("wifi", "error: wifi provisioning failed")
    /\ UNCHANGED <<cfg, bak, tmp, meta, wpa, host, req, updates, wc, pre,
                   nreq, fn>>

\* _provision_wifi without nmcli (438-469).  outcome names the first thing
\* that goes wrong: the helper missing or failing, open() for reading or for
\* writing raising OSError, the write failing after open() truncated the
\* file, wpa_cli failing; or nothing.
ProvisionFallback ==
    /\ pc = "wifi"
    /\ ~host.nmcli
    /\ LET ssid == strip(req.wifi.ssid.s)
           psk  == req.wifi.psk.s
           new  == File(ProvisionedData(wpa, ssid, psk))
       IN  \/ /\ ~host.wpa_passphrase
              /\ Fail("wifi", "error: wifi provisioning failed")
              /\ UNCHANGED <<wpa, net>>
           \/ /\ host.wpa_passphrase
              /\ \E outcome \in {"helper_failed", "reconfigure_failed"} :
                    /\ wpa' = IF outcome = "helper_failed" THEN wpa ELSE new
                    /\ Fail("wifi", "error: wifi provisioning failed")
              /\ UNCHANGED net
           \/ /\ host.wpa_passphrase
              /\ \E outcome \in {"read_raised", "open_raised", "write_raised"} :
                    /\ outcome = "read_raised" => wpa.exists
                    /\ wpa' = IF outcome = "write_raised" THEN File(<<>>)
                              ELSE wpa
                    /\ pc' = "raised"
                    /\ log' = Append(log, Entry("wifi", "raised"))
                    /\ notes' = notes
              /\ UNCHANGED net
           \/ /\ host.wpa_passphrase
              /\ wpa' = new
              /\ net' = [net EXCEPT !.reconfigures = @ + 1]
              /\ pc' = NextStep("wifi", req, updates)
              /\ log' = Append(log, Entry("wifi", "ok"))
              /\ notes' = notes
    /\ UNCHANGED <<cfg, bak, tmp, meta, host, req, updates, wc, pre, nreq, fn>>

\* Lines 617-619: "if updates: try: _write_config(CONFIG_PATH, updates)".
CallWriteConfig ==
    /\ pc = "config"
    /\ pc' = "wc_prepare"
    /\ log' = Append(log, Entry("config", "running"))
    /\ UNCHANGED <<cfg, bak, tmp, meta, wpa, net, host, req, updates, wc,
                   notes, pre, nreq, fn>>

\* _write_config returned.
ConfigWritten ==
    /\ pc = "wc_ok"
    /\ log # <<>>
    /\ log' = [log EXCEPT ![Len(log)] = Entry("config", "ok")]
    /\ pc' = NextStep("config", req, updates)
    /\ UNCHANGED <<cfg, bak, tmp, meta, wpa, net, host, req, updates, wc,
                   notes, pre, nreq, fn>>

\* Lines 620-622: "except OSError".
ConfigFailed ==
    /\ pc = "wc_raised"
    /\ log # <<>>
    /\ log' = [log EXCEPT ![Len(log)] = Entry("config", "failed")]
    /\ notes' = Append(notes, "error: failed to update config")
    /\ pc' = "done"
    /\ UNCHANGED <<cfg, bak, tmp, meta, wpa, net, host, req, updates, wc,
                   pre, nreq, fn>>

\* Lines 624-628: systemctl restart stock-screen.service.
Restart ==
    /\ pc = "restart"
    /\ \/ /\ net' = [net EXCEPT !.restarts = @ + 1]
          /\ pc' = "notify_ok"
          /\ log' = Append(log, Entry("restart", "ok"))
          /\ notes' = notes
       \/ /\ net' = net
          /\ Fail("restart", "error: restart failed")
    /\ UNCHANGED <<cfg, bak, tmp, meta, wpa, host, req, updates, wc, pre,
                   nreq, fn>>

\* Line 630.
NotifyOk ==
    /\ pc = "notify_ok"
    /\ notes' = Append(notes, "ok")
    /\ pc' = "done"
    /\ UNCHANGED <<cfg, bak, tmp, meta, wpa, net, host, req, updates, wc,
                   log, pre, nreq, fn>>

\* The device loses power while a request is being handled: the process
\* and its locals are gone, the files stay as they are for the next boot.
Crash ==
    /\ pc \notin {"idle", "done", "raised", "crashed"}
    /\ pc' = "crashed"
    /\ wc' = NoLocals
    /\ UNCHANGED <<cfg, bak, tmp, meta, wpa, net, host, req, updates, notes,
                   log, pre, nreq, fn>>

----------------------------------------------------------------------------
(* NetworkStateReader and the read snapshot.  What the tools print is a    *)
(* report r: conn the name of the first active wifi connection ("" when    *)
(* the listing failed or has none), scan the "yes:" row of the ACTIVE,SSID *)
(* listing, wifi the "*" row of the IN-USE,SSID,SIGNAL listing, secret the *)
(* output of the secret accessor, iw the output of "iwgetid -r", dev the   *)
(* state of the wifi row of "nmcli dev status".                            *)

NoRow == [ok |-> FALSE, active |-> FALSE, ssid |-> <<>>, signal |-> <<>>]
NoOut == [ok |-> FALSE, text |-> <<>>]
NoReport == [conn |-> <<>>, scan |-> NoRow, wifi |-> NoRow, secret |-> NoOut,
             iw |-> NoOut, dev |-> NoOut]

Digits == {"0", "1", "2", "3", "4", "5", "6", "7", "8", "9"}

\* str.isdigit()
isdigit(s) == s # <<>> /\ \A i \in 1..Len(s) : s[i] \in Digits

RECURSIVE DigitsValue(_)
DigitsValue(s) ==
    IF s = <<>> THEN 0
    ELSE 10 * DigitsValue(SubSeq(s, 1, Len(s) - 1)) +
         (CHOOSE d \in 0..9 : IntStr(d) = <<s[Len(s)]>>)

\* Lines 121-124: int(refresh), the text itself on ValueError; over unsigned
\* decimal texts.
IntOrText(s) == IF isdigit(s) THEN JInt(DigitsValue(s)) ELSE JStr(s)

\* Lines 127-130: float(data_range), the text itself on ValueError; over
\* unsigned texts with at most two decimals.
FloatOrText(s) ==
    LET dots == {i \in 1..Len(s) : s[i] = "."}
        dot  == IF dots = {} THEN Len(s) + 1 ELSE Min(dots)
        ip   == SubSeq(s, 1, dot - 1)
        fp   == SubSeq(s, dot + 1, Len(s))
    IN  IF /\ Cardinality(dots) <= 1
           /\ (ip # <<>> \/ fp # <<>>)
           /\ (ip = <<>> \/ isdigit(ip))
           /\ (fp = <<>> \/ (isdigit(fp) /\ Len(fp) <= 2))
        THEN JFloat(100 * DigitsValue(ip) +
                    (IF Len(fp) = 1 THEN 10 * DigitsValue(fp)
                     ELSE DigitsValue(fp)))
        ELSE JStr(s)

\* A value or None becomes a dict entry or none: None maps to Absent.
NoneOr(v, conv) == IF v = Absent THEN Absent ELSE conv

LowerLetters == <<"a", "b", "c", "d", "e", "f", "g", "h", "i", "j", "k", "l", "m",
                 "n", "o", "p", "q", "r", "s", "t", "u", "v", "w", "x", "y", "z">>
UpperLetters == <<"A", "B", "C", "D", "E", "F", "G", "H", "I", "J", "K", "L", "M",
                 "N", "O", "P", "Q", "R", "S", "T", "U", "V", "W", "X", "Y", "Z">>

IsLetter(c) == \E i \in 1..26 : c \in {LowerLetters[i], UpperLetters[i]}
UpperChar(c) ==
    IF \E i \in 1..26 : LowerLetters[i] = c
    THEN UpperLetters[CHOOSE i \in 1..26 : LowerLetters[i] = c] ELSE c
DownChar(c) ==
    IF \E i \in 1..26 : UpperLetters[i] = c
    THEN LowerLetters[CHOOSE i \in 1..26 : UpperLetters[i] = c] ELSE c

\* state.replace("-", " ").title()
Title(state) ==
    LET sp == [i \in 1..Len(state) |-> IF state[i] = "-" THEN " " ELSE state[i]]
    IN  [i \in 1..Len(sp) |->
            IF i = 1 \/ ~IsLetter(sp[i - 1]) THEN UpperChar(sp[i])
            ELSE DownChar(sp[i])]

T_Unknown == <<"U", "n", "k", "n", "o", "w", "n">>
T_Connected == <<"C", "o", "n", "n", "e", "c", "t", "e", "d">>
T_Disconnected == <<"D", "i", "s", "c", "o", "n", "n", "e", "c", "t", "e", "d">>
T_connected == <<"c", "o", "n", "n", "e", "c", "t", "e", "d">>
T_disconnected == <<"d", "i", "s", "c", "o", "n", "n", "e", "c", "t", "e", "d">>

_get_active_wifi_connection(h, r) == IF h.nmcli THEN r.conn ELSE <<>>

\* None is "": the callers test truthiness only.
_get_active_ssid(h, r) ==
    IF h.nmcli /\ r.scan.ok /\ r.scan.active THEN strip(r.scan.ssid)
    ELSE IF h.iwgetid /\ r.iw.ok THEN strip(r.iw.text)
    ELSE <<>>

\* re.match(name \s* = \s* "(.+)", stripped): group 1 runs to the last quote.
QuotedAfter(stripped, name) ==
    LET e == SkipSpace(stripped, Len(name) + 1)
        q == SkipSpace(stripped, e + 1)
        quotes == {i \in (q + 2)..Len(stripped) : stripped[i] = "\""}
    IN  IF /\ startswith(stripped, name)
           /\ e <= Len(stripped) /\ stripped[e] = "="
           /\ q <= Len(stripped) /\ stripped[q] = "\""
           /\ quotes # {}
        THEN SubSeq(stripped, q + 1, Max(quotes) - 1)
        ELSE <<>>

N_ssid == <<"s", "s", "i", "d">>
N_psk == <<"p", "s", "k">>

\* Lines 344-369: the scan of the credential file's lines from line i on,
\* with in_network, current_ssid, current_psk in st ("" for None).
RECURSIVE ScanPsk(_, _, _, _)
ScanPsk(lines, i, st, ssid) ==
    IF i > Len(lines) THEN <<>>
    ELSE LET stripped == strip(lines[i])
             ssid_match == QuotedAfter(stripped, N_ssid)
             psk_match ==
                 IF QuotedAfter(stripped, N_psk) # <<>>
                 THEN QuotedAfter(stripped, N_psk)
                 ELSE IF startswith(stripped, <<"#">>)
                      THEN QuotedAfter(Tail(stripped), N_psk)
                      ELSE <<>>
             fresh == [in_network |-> FALSE, ssid |-> <<>>, psk |-> <<>>]
         IN  IF startswith(stripped, N_network)
             THEN ScanPsk(lines, i + 1, [fresh EXCEPT !.in_network = TRUE], ssid)
             ELSE IF st.in_network /\ startswith(stripped, <<"}">>)
             THEN IF st.ssid = ssid /\ st.psk # <<>> THEN st.psk
                  ELSE ScanPsk(lines, i + 1, fresh, ssid)
             ELSE IF ~st.in_network THEN ScanPsk(lines, i + 1, st, ssid)
             ELSE IF ssid_match # <<>>
             THEN ScanPsk(lines, i + 1, [st EXCEPT !.ssid = ssid_match], ssid)
             ELSE IF psk_match # <<>>
             THEN ScanPsk(lines, i + 1, [st EXCEPT !.psk = psk_match], ssid)
             ELSE ScanPsk(lines, i + 1, st, ssid)

\* readable says whether open() of the credential file succeeds.
_get_active_psk(h, r, f, readable, connection_name, ssid) ==
    IF connection_name # <<>> /\ h.nmcli /\ r.secret.ok
       /\ strip(r.secret.text) # <<>>
    THEN strip(r.secret.text)
    ELSE IF ssid = <<>> \/ ~f.exists \/ ~readable THEN <<>>
    ELSE ScanPsk(_read_lines(f.data), 1,
                 [in_network |-> FALSE, ssid |-> <<>>, psk |-> <<>>], ssid)

_get_wifi_status(h, r) ==
    IF ~h.nmcli THEN T_Unknown
    ELSE IF r.wifi.ok /\ r.wifi.active
    THEN LET readable_ssid == strip(r.wifi.ssid)
             signal_value == strip(r.wifi.signal)
             to == IF readable_ssid # <<>>
                   THEN <<" ", "t", "o", " ">> \o readable_ssid ELSE <<>>
         IN  IF isdigit(signal_value)
             THEN T_Connected \o to \o <<" ", "(", "s", "i", "g", "n", "a", "l", " ">> \o signal_value \o
                  <<"%", ")">>
             ELSE T_Connected \o to
    ELSE IF r.dev.ok
    THEN CASE r.dev.text = T_connected -> T_Connected
           [] r.dev.text = T_disconnected -> T_Disconnected
           [] OTHER -> Title(r.dev.text)
    ELSE T_Unknown

\* The dict of _load_wifi_details: a key is there when its text is not empty.
_load_wifi_details(h, r, f, readable) ==
    LET connection_name == _get_active_wifi_connection(h, r)
        ssid   == _get_active_ssid(h, r)
        psk    == _get_active_psk(h, r, f, readable, connection_name, ssid)
        status == _get_wifi_status(h, r)
        Entry_(x) == IF x # <<>> THEN JStr(x) ELSE Absent
    IN  [ssid |-> Entry_(ssid), psk |-> Entry_(psk), status |-> Entry_(status)]

NoWifiDetails == [ssid |-> Absent, psk |-> Absent, status |-> Absent]

\* The snapshot: sections names the keys of result; base, epd2in13v3 and
\* wifi are the dicts built on the way, Absent for a key that was not set.
_load_config_values(f, h, r, w, readable) ==
    LET lines == LoadLines(f)
        refresh    == _get_value(lines, S_base, K_refresh_interval_minutes)
        data_range == _get_value(lines, S_base, K_data_range_days)
        base == [refresh_interval_minutes |-> NoneOr(refresh, IntOrText(refresh.s)),
                 data_range_days |-> NoneOr(data_range, FloatOrText(data_range.s)),
                 data_api_base_url |-> _get_value(lines, S_base, K_data_api_base_url),
                 ticker |-> _get_value(lines, S_base, K_ticker)]
        epd  == [mode |-> _get_value(lines, S_epd2in13v3, K_mode)]
        wifi == _load_wifi_details(h, r, w, readable)
    IN  [sections |-> {n \in {"base", "epd2in13v3", "wifi"} :
                          \/ n = "base" /\ base # NoBaseUpdates
                          \/ n = "epd2in13v3" /\ epd # NoEpdUpdates
                          \/ n = "wifi" /\ wifi # NoWifiDetails},
         base |-> base, epd2in13v3 |-> epd, wifi |-> wifi]

----------------------------------------------------------------------------
(* SpecValidate: _validate_updates applied to the payloads of the table *)

T_ABC   == <<" ", "A", "B", "C", " ">>
T_AhB   == <<"A", "#", "B">>
T_blank == <<" ", " ">>
U_x     == <<"h", "t", "t", "p", ":", "/", "/", "x">>
W_Candle == <<"C", "a", "n", "d", "l", "e">>
W_line   == <<" ", "l", "i", "n", "e", "\n">>
W_bar    == <<"b", "a", "r">>

RefreshSamples ==
    {Absent, JInt(0), JInt(1), JInt(1440), JInt(1441), JBool(TRUE),
     JBool(FALSE), JStr(<<"5">>), JFloat(500), JNull}
RangeSamples ==
    {Absent, JFloat(5), JFloat(10), JFloat(36500), JFloat(36501), JInt(400),
     JInt(7), JBool(TRUE), JStr(<<"a", "b", "c">>)}
UrlSamples    == {Absent, JStr(U_x), JStr(<<>>), JList}
TickerSamples == {Absent, JStr(T_ABC), JStr(T_blank), JStr(T_AhB), JInt(1)}
ModeSamples   == {Absent, JStr(W_Candle), JStr(W_line), JStr(W_bar), JInt(1)}

ValidatePayloads ==
    {[EmptyPayload EXCEPT
        !.base = [t |-> "dict", refresh_interval_minutes |-> r,
                  data_range_days |-> d, data_api_base_url |-> a,
                  ticker |-> k],
        !.epd2in13v3 = [t |-> "dict", mode |-> m]] :
        r \in RefreshSamples, d \in RangeSamples, a \in UrlSamples,
        k \in TickerSamples, m \in ModeSamples}
    \cup {[EmptyPayload EXCEPT !.base = [NoBase EXCEPT !.t = bt],
                               !.epd2in13v3 = [NoEpd EXCEPT !.t = et]] :
            bt \in {"absent", "dict", "other"},
            et \in {"absent", "dict", "other"}}

InitValidate ==
    /\ AtRest
    /\ cfg = NoFile /\ bak = NoFile /\ wpa = NoFile
    /\ meta = NoStat /\ net = NoNet /\ host = PiHost
    /\ \E p \in ValidatePayloads :
          fn = [op |-> "validate", arg |-> p, done |-> FALSE, out |-> Raise("")]

ValidateCall ==
    /\ fn.op = "validate"
    /\ ~fn.done
    /\ fn' = [fn EXCEPT !.done = TRUE, !.out = _validate_updates(fn.arg)]
    /\ UNCHANGED <<cfg, bak, tmp, meta, wpa, net, host, pc, req, updates, wc,
                   notes, log, pre, nreq>>

NextValidate == ValidateCall

SpecValidate == InitValidate /\ [][NextValidate]_vars

\* The field table of the validator's contract, as the table states it.
TableAccepts(p) ==
    LET b == p.base
        e == p.epd2in13v3
        r == b.refresh_interval_minutes
        d == b.data_range_days
    IN  /\ b.t \in {"absent", "dict"}
        /\ e.t \in {"absent", "dict"}
        /\ Has(r) => r.t = "int" /\ r.n >= 1 /\ r.n <= 1440
        /\ Has(d) => \/ d.t = "int" /\ 100 * d.n >= 10 /\ 100 * d.n <= 36500
                     \/ d.t = "float" /\ d.n >= 10 /\ d.n <= 36500
        /\ Has(b.data_api_base_url) =>
              b.data_api_base_url.t = "str" /\ strip(b.data_api_base_url.s) # <<>>
        /\ Has(b.ticker) => b.ticker.t = "str" /\ strip(b.ticker.s) # <<>>
        /\ Has(e.mode) =>
              e.mode.t = "str" /\ lower(strip(e.mode.s)) \in {M_candle, M_line}

\* C10: _validate_updates returns an UpdateSet exactly for the payloads whose
\* present fields all satisfy the field table (refresh_interval_minutes a JSON
\* integer in 1..1440, booleans and strings rejected; data_range_days a number
\* in 0.1..365.0; ticker and url non-empty after trim; mode candle or line
\* after trim and lower-casing), the values it returns are the normalized
\* ones, and a rejected payload yields no UpdateSet.
C10_ValidatorAgreesWithTable ==
    (fn.op = "validate" /\ fn.done) =>
        /\ fn.out.ok <=> TableAccepts(fn.arg)
        /\ ~fn.out.ok => fn.out.updates = NoUpdates
        /\ fn.out.ok =>
              /\ fn.out.updates.base.refresh_interval_minutes
                     = fn.arg.base.refresh_interval_minutes
              /\ Has(fn.arg.base.ticker) =>
                     fn.out.updates.base.ticker.s = strip(fn.arg.base.ticker.s)
              /\ Has(fn.arg.epd2in13v3.mode) =>
                     fn.out.updates.epd2in13v3.mode.s \in {M_candle, M_line}

\* The same agreement over the payloads that carry no JSON boolean where a
\* number is expected: the only disagreement is the boolean.
ValidatorAgreesWithTableButBool ==
    (/\ fn.op = "validate" /\ fn.done
     /\ fn.arg.base.refresh_interval_minutes.t # "bool"
     /\ fn.arg.base.data_range_days.t # "bool") =>
        (fn.out.ok <=> TableAccepts(fn.arg))

----------------------------------------------------------------------------
(* SpecPatch: _write_config run to completion, repeatedly with the same    *)
(* UpdateSet, over the files built from the sample lines.                  *)

MaxFileLines == 2
MaxRuns == 2

L_base   == <<"[", "b", "a", "s", "e", "]">>
L_epd    == <<"[", "e", "p", "d", "2", "i", "n", "1", "3", "v", "3", "]">>
L_other  == <<"[", "o", "t", "h", "e", "r", "]">>
L_ticker == <<"t", "i", "c", "k", "e", "r", "=", "A", "B", "C">>
L_semi   == <<"t", "i", "c", "k", "e", "r", " ", "=", " ", "X", " ", ";",
              " ", "c">>
L_mode   == <<"m", "o", "d", "e", " ", ":", " ", "l", "i", "n", "e">>
L_refresh ==
    K_refresh_interval_minutes \o
    <<" ", ":", " ", "5", " ", " ", "#", " ", "e", "v", "e", "r", "y", " ",
      "5", " ", "m", "i", "n">>
L_blank  == <<>>

LineSamples ==
    {L_base, L_epd, L_other, L_ticker, L_semi, L_mode, L_refresh, L_blank}

LF   == <<"\n">>
CRLF == <<"\r", "\n">>

\* The file holding the lines ls, each ended by nl, the last one only when
\* last_nl.
RECURSIVE FileText(_, _, _)
FileText(ls, nl, last_nl) ==
    IF ls = <<>> THEN <<>>
    ELSE IF Len(ls) = 1 THEN Head(ls) \o (IF last_nl THEN nl ELSE <<>>)
    ELSE Head(ls) \o nl \o FileText(Tail(ls), nl, last_nl)

PatchFiles ==
    {NoFile} \cup
    {File(FileText(ls, LF, last_nl)) :
        ls \in UNION {[1..k -> LineSamples] : k \in 0..MaxFileLines},
        last_nl \in BOOLEAN}
    \cup {File(FileText(<<L_base, l>>, CRLF, TRUE)) : l \in LineSamples}

T_AsB == <<"A", ";", "B">>
V_ABC == <<"A", "B", "C">>

\* Payloads the validator accepts; their UpdateSets are the inputs.
PatchPayloads ==
    {[EmptyPayload EXCEPT !.base = [NoBase EXCEPT !.t = "dict", !.ticker = k]] :
        k \in {JStr(V_ABC), JStr(T_AhB), JStr(T_AsB)}}
    \cup {[EmptyPayload EXCEPT
             !.base = [NoBase EXCEPT !.t = "dict",
                                     !.refresh_interval_minutes = JInt(10)]],
          [EmptyPayload EXCEPT
             !.epd2in13v3 = [t |-> "dict", mode |-> JStr(W_Candle)]],
          [EmptyPayload EXCEPT
             !.base = [NoBase EXCEPT !.t = "dict",
                                     !.refresh_interval_minutes = JInt(10),
                                     !.ticker = JStr(T_ABC)],
             !.epd2in13v3 = [t |-> "dict", mode |-> JStr(W_line)]],
          [EmptyPayload EXCEPT
             !.base = [t |-> "dict", refresh_interval_minutes |-> JInt(1440),
                       data_range_days |-> JFloat(150),
                       data_api_base_url |-> JStr(U_x),
                       ticker |-> JStr(V_ABC)]]}

PatchUpdates ==
    {_validate_updates(p).updates :
        p \in {q \in PatchPayloads : _validate_updates(q).ok
                                     /\ NonEmpty(_validate_updates(q).updates)}}

InitPatch ==
    /\ AtRest
    /\ bak = NoFile /\ wpa = NoFile /\ net = NoNet /\ host = PiHost
    /\ cfg \in PatchFiles
    /\ meta = (IF cfg.exists THEN Stat("alice", "alice", "0644") ELSE NoStat)
    /\ \E u \in PatchUpdates :
          /\ fn = [op |-> "patch", runs |-> 0, orig |-> cfg, upd |-> u,
                   after |-> <<>>]

\* _write_config(CONFIG_PATH, fn.upd), run from line 155 to its return with no
\* OSError on the way: the steps WcPrepare .. WcFixOwner in one.
WriteConfigCall ==
    /\ fn.op = "patch"
    /\ fn.runs < MaxRuns
    /\ cfg' = File(PatchedData(cfg, fn.upd))
    /\ bak' = IF cfg.exists THEN cfg ELSE bak
    /\ meta' \in {FixupStat(IF cfg.exists THEN meta ELSE NoStat,
                            dir_ok, chown_ok, chmod_ok) :
                      dir_ok \in BOOLEAN, chown_ok \in BOOLEAN,
                      chmod_ok \in BOOLEAN}
    /\ fn' = [fn EXCEPT !.runs = @ + 1, !.after = Append(@, cfg')]
    /\ UNCHANGED <<tmp, wpa, net, host, pc, req, updates, wc, notes, log,
                   pre, nreq>>

NextPatch == WriteConfigCall

SpecPatch == InitPatch /\ [][NextPatch]_vars

\* C1: running _write_config twice with the same UpdateSet leaves the file
\* byte-identical to its content after the first run, for every initial file
\* (a missing one included) and every UpdateSet the validator can return
\* (string values holding "#" or ";" included).
C1_WriteIdempotent ==
    (fn.op = "patch" /\ fn.runs >= 2) => fn.after[2] = fn.after[1]

\* The (section, key, value) triples an UpdateSet names.
Named(u) ==
    {e \in {<<S_base, K_refresh_interval_minutes, u.base.refresh_interval_minutes>>,
            <<S_base, K_data_range_days, u.base.data_range_days>>,
            <<S_base, K_data_api_base_url, u.base.data_api_base_url>>,
            <<S_base, K_ticker, u.base.ticker>>,
            <<S_epd2in13v3, K_mode, u.epd2in13v3.mode>>} : Has(e[3])}

WhitelistKeys ==
    {K_refresh_interval_minutes, K_data_range_days, K_data_api_base_url,
     K_ticker, K_mode}

\* The file grammar's key line: leading spaces, the key, spaces, ":" or "=".
HoldsKey(line, key) ==
    LET p == SkipSpace(line, 1)
        q == SkipSpace(line, p + Len(key))
    IN  /\ p + Len(key) - 1 <= Len(line)
        /\ SubSeq(line, p, p + Len(key) - 1) = key
        /\ q <= Len(line)
        /\ line[q] \in {":", "="}

\* The section a line belongs to: the name of the nearest header above it.
SectionAt(lines, i) ==
    LET hdr == {j \in 1..(i - 1) : IsHeader(lines[j])}
    IN  IF hdr = {} THEN <<>> ELSE HeaderName(lines[Max(hdr)])

\* The lines of file f, as bytes, that hold a (section, key) u does not name.
UntouchedKeyLines(f, u) ==
    LET raw == SplitLines(f.data)
        idx == {i \in 1..Len(raw) :
                   \E k \in WhitelistKeys :
                      /\ HoldsKey(raw[i], k)
                      /\ \A e \in Named(u) :
                            ~(e[1] = SectionAt(raw, i) /\ e[2] = k)}
        F[n \in 0..Len(raw)] ==
            IF n = 0 THEN <<>>
            ELSE IF n \in idx THEN Append(F[n - 1], raw[n]) ELSE F[n - 1]
    IN  F[Len(raw)]

RECURSIVE IsSubseq(_, _)
\* a is b with some elements left out, the order kept.
IsSubseq(a, b) ==
    IF a = <<>> THEN TRUE
    ELSE IF b = <<>> THEN FALSE
    ELSE IF Head(a) = Head(b) THEN IsSubseq(Tail(a), Tail(b))
    ELSE IsSubseq(a, Tail(b))

\* C2: after _write_config every line that holds a (section, key) the
\* UpdateSet does not name (a same-named key of another section included) is
\* still a line of the file with the same bytes: value, comment, whitespace
\* and newline, whether the touched keys were replaced or inserted, also when
\* the file's last line had no trailing newline.
C2_UntouchedLinesKept ==
    (fn.op = "patch" /\ fn.runs >= 1 /\ fn.orig.exists) =>
        IsSubseq(UntouchedKeyLines(fn.orig, fn.upd),
                 SplitLines(fn.after[1].data))

\* The spaces that end a text.
TrailingSpace(t) ==
    LET idx == {i \in 1..Len(t) : ~IsSpace(t[i])}
    IN  IF idx = {} THEN t ELSE SubSeq(t, Max(idx) + 1, Len(t))

\* The line terminator of a raw line: "\r\n", "\n" or none.
Terminator(raw) ==
    IF Len(raw) >= 2 /\ SubSeq(raw, Len(raw) - 1, Len(raw)) = CRLF THEN CRLF
    ELSE IF endswith_nl(raw) THEN LF ELSE <<>>

\* C3: when every key of the UpdateSet has a line in its section, the write
\* changes only the value span of each such line: the new line is the
\* original prefix (key, separator, spaces), the new value, the original
\* trailing spaces and comment, and the original newline; no other line
\* changes.  "refresh_interval_minutes : 5  # every 5 min" set to 10 becomes
\* "refresh_interval_minutes : 10  # every 5 min".
C3_OnlyValueSpanChanges ==
    LET old  == LoadLines(fn.orig)
        raw  == SplitLines(fn.orig.data)
        new  == SplitLines(fn.after[1].data)
    IN  (/\ fn.op = "patch" /\ fn.runs >= 1 /\ fn.orig.exists
         /\ \A e \in Named(fn.upd) : _find_key(old, e[1], e[2]).found) =>
            /\ Len(new) = Len(raw)
            /\ \A e \in Named(fn.upd) :
                  LET m == _find_key(old, e[1], e[2])
                  IN  new[m.idx] = m.g1 \o PyStr(e[3]) \o TrailingSpace(m.g2)
                                   \o m.g3 \o Terminator(raw[m.idx])

\* The spec's own example of C3, as the code treats it.
ExampleLineAfterWrite ==
    (/\ fn.op = "patch" /\ fn.runs >= 1
     /\ fn.orig = File(L_base \o LF \o L_refresh \o LF)
     /\ fn.upd = [NoUpdates EXCEPT !.base.refresh_interval_minutes = JInt(10)]) =>
        fn.after[1].data =
            L_base \o LF \o K_refresh_interval_minutes \o
            <<" ", ":", " ", "1", "0", "#", " ", "e", "v", "e", "r", "y",
              " ", "5", " ", "m", "i", "n", "\n">>

----------------------------------------------------------------------------
(* Spec: write requests arriving at a device, one handled at a time, with  *)
(* every command and file operation free to fail and the power free to go. *)

N_one == <<"N", "1">>
N_two == <<"N", "2">>
N_padded == <<" ", "N", "1", " ">>
\* Passphrases of the length wpa_passphrase takes (8 to 63 characters).
Psk_a == <<"p", "a", "s", "s", "w", "0", "r", "d">>
Psk_b == <<"h", "u", "n", "t", "e", "r", "2", "2">>

Wifi(ssid, psk) == [t |-> "dict", ssid |-> ssid, psk |-> psk, other |-> FALSE]
Base(r, k) == [NoBase EXCEPT !.t = "dict", !.refresh_interval_minutes = r,
                             !.ticker = k]
Epd(m) == [t |-> "dict", mode |-> m]

Payloads ==
    {[EmptyPayload EXCEPT !.kind = "invalid_utf8"],
     [EmptyPayload EXCEPT !.kind = "invalid_json"],
     [EmptyPayload EXCEPT !.kind = "array"],
     EmptyPayload,
     [EmptyPayload EXCEPT !.wifi = [NoWifi EXCEPT !.t = "other"],
                          !.base = Base(JInt(10), Absent)],
     [EmptyPayload EXCEPT !.wifi = [NoWifi EXCEPT !.t = "dict"],
                          !.restart = JBool(TRUE)],
     [EmptyPayload EXCEPT !.base = Base(JStr(<<"5">>), Absent),
                          !.wifi = Wifi(JStr(N_one), JStr(Psk_a)),
                          !.restart = JBool(TRUE)],
     [EmptyPayload EXCEPT !.base = Base(JBool(TRUE), Absent)],
     [EmptyPayload EXCEPT !.base = Base(Absent, JStr(T_ABC)),
                          !.epd2in13v3 = Epd(JStr(W_bar)),
                          !.restart = JBool(TRUE)],
     [EmptyPayload EXCEPT !.base = Base(JInt(10), Absent)],
     [EmptyPayload EXCEPT !.base = Base(Absent, JStr(U_x)),
                          !.restart = JBool(TRUE)],
     [EmptyPayload EXCEPT !.restart = JBool(TRUE)],
     [EmptyPayload EXCEPT !.restart = JInt(1),
                          !.epd2in13v3 = Epd(JStr(W_Candle))],
     [EmptyPayload EXCEPT !.wifi = Wifi(JStr(N_padded), JStr(Psk_b))],
     [EmptyPayload EXCEPT !.wifi = Wifi(JStr(N_two), Absent),
                          !.base = Base(JInt(10), Absent)],
     [EmptyPayload EXCEPT !.wifi = Wifi(JStr(T_blank), JStr(Psk_a)),
                          !.base = Base(JInt(10), Absent)],
     [EmptyPayload EXCEPT !.wifi = Wifi(JInt(5), JStr(Psk_a)),
                          !.restart = JBool(TRUE)],
     [EmptyPayload EXCEPT !.wifi = Wifi(JStr(N_two), JStr(Psk_a)),
                          !.base = Base(JInt(10), Absent),
                          !.epd2in13v3 = Epd(JStr(W_line)),
                          !.restart = JBool(TRUE)]}

\* Hosts: with NetworkManager; with the wpa tools only and no pi account;
\* with neither.
Hosts ==
    {PiHost,
     [PiHost EXCEPT !.nmcli = FALSE, !.pwd_pi = FALSE, !.grp_pi = FALSE],
     [PiHost EXCEPT !.nmcli = FALSE, !.wpa_passphrase = FALSE,
                    !.grp_pi = FALSE, !.pi_gid = "users"]}

ConfigFiles ==
    {NoFile, File(FileText(<<L_base, L_refresh>>, LF, TRUE))}

CredentialFiles ==
    {NoFile,
     File(<<"c", "=", "G", "B", "\n">> \o NetworkBlock(N_one, Psk_a) \o
          <<"\n", "\n">> \o NetworkBlock(N_two, Psk_a))}

Init ==
    /\ AtRest
    /\ fn = NoFn
    /\ bak = NoFile
    /\ net = NoNet
    /\ host \in Hosts
    /\ cfg \in ConfigFiles
    /\ meta = (IF cfg.exists THEN Stat("alice", "alice", "0644") ELSE NoStat)
    /\ wpa \in CredentialFiles

Next ==
    \/ \E p \in Payloads : OnWrite(p)
    \/ ProvisionNmcli
    \/ ProvisionFallback
    \/ CallWriteConfig
    \/ WcPrepare
    \/ WcCreateTemp
    \/ WcWriteLine
    \/ WcSync
    \/ WcBackup
    \/ WcReplace
    \/ WcFixOwner
    \/ WcFail
    \/ ConfigWritten
    \/ ConfigFailed
    \/ Restart
    \/ NotifyOk
    \/ Crash

Spec == Init /\ [][Next]_vars

TypeOK ==
    /\ pc \in {"idle", "done", "raised", "crashed", "wifi", "config",
               "restart", "notify_ok", "wc_prepare", "wc_mktemp", "wc_write",
               "wc_backup", "wc_replace", "wc_fixup", "wc_ok", "wc_raised"}
    /\ nreq \in 0..MaxRequests
    /\ req \in Payloads \cup {EmptyPayload}
    /\ \A i \in 1..Len(notes) : notes[i] \in
          ValidationReplies \cup
          {"ok", "error: invalid json", "error: payload must be a JSON object",
           "error: wifi provisioning failed", "error: failed to update config",
           "error: restart failed"}

----------------------------------------------------------------------------
(* Properties of the write request *)

\* The handler has returned or an exception has left it.
Ended == nreq > 0 /\ pc \in {"done", "raised"}

Steps == {log[i].step : i \in 1..Len(log)}

\* C4: throughout a request, a crash or a failed file operation included,
\* configuration.cfg is exactly what it was before the request or exactly the
\* complete patched text; and when _write_config raises, it is what it was.
C4_AtomicPersistence ==
    nreq > 0 =>
        /\ \/ cfg = pre.cfg
           \/ cfg = File(PatchedData(pre.cfg, updates))
        /\ pc = "wc_raised" => cfg = pre.cfg
        /\ (notes # <<>> /\ notes[Len(notes)] = "error: failed to update config")
               => cfg = pre.cfg

\* Power lost with the temporary file part written: the target is untouched.
C4_CrashMidWrite ==
    /\ pc = "crashed"
    /\ cfg.exists /\ cfg = pre.cfg
    /\ tmp.exists /\ tmp.data # <<>>
    /\ tmp.data # PatchedData(pre.cfg, updates)
    /\ cfg.data # PatchedData(pre.cfg, updates)

\* The request passed decoding and every check, and each step run succeeded.
AllSucceeded ==
    /\ req.kind = "object"
    /\ EarlyReply(req) = ""
    /\ \A i \in 1..Len(log) : log[i].res = "ok"

\* C5: a request that has ended has sent exactly one notification, "ok"
\* when every step it ran succeeded and an error otherwise.
C5_ExactlyOneNotification ==
    Ended =>
        /\ Len(notes) = 1
        /\ notes[1] = "ok" <=> AllSucceeded

\* The requests every reply of which C5 describes: those no exception leaves.
EndedByReturn == nreq > 0 /\ pc = "done"

ReturnedRequestsNotifyOnce ==
    EndedByReturn =>
        /\ Len(notes) = 1
        /\ notes[1] = "ok" <=> AllSucceeded

\* What the field table and the wifi rules call invalid: a setting that
\* breaks its constraint, a wifi that is no object, or a wifi object with
\* members whose ssid or psk is missing, no string or empty.
Invalid(p) ==
    /\ p.kind = "object"
    /\ \/ ~TableAccepts(p)
       \/ p.wifi.t = "other"
       \/ /\ WifiTruthy(p)
          /\ \/ p.wifi.ssid.t # "str" \/ strip(p.wifi.ssid.s) = <<>>
             \/ p.wifi.psk.t # "str" \/ p.wifi.psk.s = <<>>

NothingAttempted == Steps \subseteq {"validate"}

\* C6: a request with an invalid field changes nothing and attempts no step.
C6_InvalidRequestChangesNothing ==
    (nreq > 0 /\ Invalid(req)) => (Snapshot = pre /\ NothingAttempted)

\* Every validation error the handler does reply with comes before any step.
ValidationReplyChangesNothing ==
    (notes # <<>> /\ notes[1] \in ValidationReplies)
        => (Snapshot = pre /\ NothingAttempted /\ pc = "done")

Rank(step) ==
    CASE step = "validate" -> 0 [] step = "wifi" -> 1
      [] step = "config" -> 2 [] step = "restart" -> 3

\* C7 as amended: the steps run in the order validator, wifi provisioner,
\* config patcher, service restart, each at most once, and "ok" is sent after
\* the last of them.
C7_StepOrder ==
    /\ \A i, j \in 1..Len(log) : i < j => Rank(log[i].step) < Rank(log[j].step)
    /\ (notes # <<>> /\ notes[1] = "ok")
           => Steps = {"validate"} \cup Requested(req, updates)

\* A request with settings, credentials and restart, all done.
C7_AllFourStepsRan ==
    /\ pc = "done"
    /\ notes = <<"ok">>
    /\ log = <<Entry("validate", "ok"), Entry("wifi", "ok"),
               Entry("config", "ok"), Entry("restart", "ok")>>

\* C7 as stated: the config file is written before wifi is provisioned.
C7_ConfigBeforeWifi ==
    \A i, j \in 1..Len(log) :
        (log[i].step = "config" /\ log[j].step = "wifi") => i < j

\* C8 as amended: the steps are attempted one after another until the first
\* that fails, after which none is attempted; a request answered "ok" ran
\* every step it asked for; and what a step achieved stays when a later step
\* fails.
C8_StopAtFirstFailure ==
    /\ \A i \in 1..(Len(log) - 1) : log[i].res = "ok"
    /\ (pc = "done" /\ log # <<>> /\ log[Len(log)].res = "failed")
           => notes # <<"ok">>
    /\ Entry("wifi", "ok") \in {log[i] : i \in 1..Len(log)} =>
           IF host.nmcli
           THEN net.joined = strip(req.wifi.ssid.s)
           ELSE /\ wpa = File(ProvisionedData(pre.wpa, strip(req.wifi.ssid.s),
                                              req.wifi.psk.s))
                /\ net.reconfigures = pre.net.reconfigures + 1
    /\ Entry("config", "ok") \in {log[i] : i \in 1..Len(log)} =>
           cfg = File(PatchedData(pre.cfg, updates))

\* Credentials stored, then the config write failed: the restart that was
\* asked for is not attempted and the credentials stay.
C8_LaterFailureKeepsEarlierEffect ==
    /\ pc = "done"
    /\ log = <<Entry("validate", "ok"), Entry("wifi", "ok"),
               Entry("config", "failed")>>
    /\ "restart" \in Requested(req, updates)
    /\ ~host.nmcli
    /\ wpa # pre.wpa
    /\ cfg = pre.cfg

\* C8 as stated: every step a validated request asks for is attempted, whether
\* or not another failed.
C8_EveryRequestedStepAttempted ==
    (pc = "done" /\ req.kind = "object" /\ EarlyReply(req) = "")
        => Requested(req, updates) \subseteq Steps

----------------------------------------------------------------------------
(* SpecRead: _load_config_values over the sample files, for hosts with and *)
(* without the network tools and for what the tools report.                *)

ReadFiles ==
    {NoFile} \cup
    {File(FileText(ls, LF, last_nl)) :
        ls \in UNION {[1..k -> LineSamples] : k \in 0..MaxFileLines},
        last_nl \in BOOLEAN}

R_home ==
    [conn |-> <<"h", "o", "m", "e">>,
     scan |-> [ok |-> TRUE, active |-> TRUE, ssid |-> N_padded, signal |-> <<>>],
     wifi |-> [ok |-> TRUE, active |-> TRUE, ssid |-> N_one,
               signal |-> <<"7", "0">>],
     secret |-> [ok |-> TRUE, text |-> Psk_b \o <<"\n">>],
     iw |-> [ok |-> TRUE, text |-> N_two \o <<"\n">>],
     dev |-> [ok |-> TRUE, text |-> T_connected]]

\* nmcli lists no network in use and keeps no secret; the device is waiting.
R_idle ==
    [NoReport EXCEPT !.scan = [NoRow EXCEPT !.ok = TRUE],
                     !.wifi = [NoRow EXCEPT !.ok = TRUE],
                     !.iw = [ok |-> TRUE, text |-> N_one \o <<"\n">>],
                     !.dev = [ok |-> TRUE, text |-> <<"n", "e", "e", "d", "-", "a", "u", "t", "h">>]]

\* The device row has an empty state.
R_blank == [NoReport EXCEPT !.dev = [ok |-> TRUE, text |-> <<>>]]

Reports == {NoReport, R_home, R_idle, R_blank}

ReadHosts ==
    {PiHost, [PiHost EXCEPT !.nmcli = FALSE],
     [PiHost EXCEPT !.nmcli = FALSE, !.iwgetid = FALSE,
                    !.wpa_passphrase = FALSE]}

\* Host, report, credential file and whether it can be opened.  A host with
\* no tool gets no report; a report with nothing in it comes with no
\* credential file.
ReadEnvs ==
    {e \in ReadHosts \X Reports \X CredentialFiles \X BOOLEAN :
        /\ e[4] \/ e[3].exists
        /\ (~e[1].nmcli /\ ~e[1].iwgetid) => e[2] = NoReport
        /\ e[2] = R_blank => e[1].nmcli
        /\ e[2] \in {NoReport, R_blank} => ~e[3].exists}

InitRead ==
    /\ AtRest
    /\ bak = NoFile /\ net = NoNet
    /\ cfg \in ReadFiles
    /\ meta = (IF cfg.exists THEN Stat("alice", "alice", "0644") ELSE NoStat)
    /\ \E e \in ReadEnvs :
          /\ host = e[1]
          /\ wpa = e[3]
          /\ fn = [op |-> "read", r |-> e[2], readable |-> e[4],
                   done |-> FALSE, out |-> [sections |-> {}]]

\* The read callback, lines 561-574, up to the snapshot it encodes.
ReadCall ==
    /\ fn.op = "read"
    /\ ~fn.done
    /\ fn' = [fn EXCEPT !.done = TRUE,
                        !.out = _load_config_values(cfg, host, fn.r, wpa,
                                                    fn.readable)]
    /\ UNCHANGED <<cfg, bak, tmp, meta, wpa, net, host, pc, req, updates, wc,
                   notes, log, pre, nreq>>

NextRead == ReadCall

SpecRead == InitRead /\ [][NextRead]_vars

BaseFields ==
    {<<K_refresh_interval_minutes, "refresh_interval_minutes">>,
     <<K_data_range_days, "data_range_days">>,
     <<K_data_api_base_url, "data_api_base_url">>,
     <<K_ticker, "ticker">>}

\* Some line of the file, under the header of section, holds key.
InOwnSection(f, section, key) ==
    LET raw == SplitLines(f.data)
    IN  \E i \in 1..Len(raw) :
           HoldsKey(raw[i], key) /\ SectionAt(raw, i) = section

ExampleFile == File(FileText(<<L_base, L_ticker>>, LF, FALSE))

ReadDone == fn.op = "read" /\ fn.done

\* C9 as amended: in the snapshot a base or epd2in13v3 key is there only if
\* a line of its own section holds it, a section is there exactly when one of
\* its keys is, and the wifi section carries a status on every host without
\* nmcli ("Unknown") and whenever the tools name a state; so for the file
\* "[base]\nticker=ABC" the snapshot is {"base": {"ticker": "ABC"}} plus the
\* wifi section, {"status": "Unknown"} when no tool is installed.
C9_SnapshotHoldsWhatResolved ==
    ReadDone =>
        LET out == fn.out
        IN  /\ \A kf \in BaseFields :
                  Has(out.base[kf[2]]) => InOwnSection(cfg, S_base, kf[1])
            /\ Has(out.epd2in13v3.mode) => InOwnSection(cfg, S_epd2in13v3, K_mode)
            /\ "base" \in out.sections <=> out.base # NoBaseUpdates
            /\ "epd2in13v3" \in out.sections <=> out.epd2in13v3 # NoEpdUpdates
            /\ "wifi" \in out.sections <=> out.wifi # NoWifiDetails
            /\ ~host.nmcli => out.wifi.status = JStr(T_Unknown)
            /\ (~host.nmcli /\ ~host.iwgetid) =>
                   (out.wifi.ssid = Absent /\ out.wifi.psk = Absent)
            /\ cfg = ExampleFile =>
                   /\ out.base = [NoBaseUpdates EXCEPT !.ticker = JStr(V_ABC)]
                   /\ out.epd2in13v3 = NoEpdUpdates
                   /\ out.sections \in {{"base"}, {"base", "wifi"}}
                   /\ ~host.nmcli => out.sections = {"base", "wifi"}

\* The example file read on a host with no network tool at all.
C9_ExampleOnBareHost ==
    /\ ReadDone
    /\ cfg = ExampleFile
    /\ ~host.nmcli /\ ~host.iwgetid
    /\ fn.out.sections = {"base", "wifi"}
    /\ fn.out.base.ticker = JStr(V_ABC)
    /\ fn.out.wifi = [NoWifiDetails EXCEPT !.status = JStr(T_Unknown)]

\* C9 as stated: the example file's snapshot is {"base": {"ticker": "ABC"}}
\* and nothing else, whatever the state of the network tools.
C9_ExampleSnapshotExact ==
    (ReadDone /\ cfg = ExampleFile) =>
        /\ fn.out.sections = {"base"}
        /\ fn.out.base = [NoBaseUpdates EXCEPT !.ticker = JStr(V_ABC)]

----------------------------------------------------------------------------
(* Properties of _write_config's backup and fix-up *)

ReportedFailedUpdate ==
    notes # <<>> /\ notes[Len(notes)] = "error: failed to update config"

\* C11: a failed copy of the prior version to <path>.bak does not make
\* _write_config raise, and the request is not answered with a failed config
\* update because of it.
C11_BackupBestEffort ==
    wc.raised_at = "wc_backup" => (pc # "wc_raised" /\ ~ReportedFailedUpdate)

\* What the handler does with a failed copy: the target keeps the prior
\* version, the finished temporary file stays beside it, the request fails.
BackupFailureIsFatal ==
    (wc.raised_at = "wc_backup" /\ pc = "done") =>
        /\ ReportedFailedUpdate
        /\ cfg = pre.cfg
        /\ tmp = File(PatchedData(pre.cfg, updates))

\* _write_config has returned normally and its locals are still in scope.
Returned == pc = "wc_ok"

\* The identity configured in CONFIG_OWNER_USER / CONFIG_OWNER_GROUP as the
\* host's databases resolve it: the group's id, or the user's primary group
\* when the group is unknown.
ConfiguredGid == IF host.grp_pi THEN "pi" ELSE host.pi_gid

\* C12: after a _write_config that returned, the file's owner and group are
\* the configured identity when the host resolves it and otherwise those the
\* file had before the write, provided the chown succeeded; when the chown
\* failed the file keeps the owner and group the temporary file was created
\* with.
C12_OwnerAfterWrite ==
    Returned =>
        /\ (wc.fixup.chown_ok /\ host.pwd_pi) =>
               (meta.uid = "pi" /\ meta.gid = ConfiguredGid)
        /\ (wc.fixup.chown_ok /\ ~host.pwd_pi /\ pre.cfg.exists) =>
               (meta.uid = pre.meta.uid /\ meta.gid = pre.meta.gid)
        /\ ~wc.fixup.chown_ok =>
               (meta.uid = TempStat.uid /\ meta.gid = TempStat.gid)

\* The identity does not resolve and the file is given back to its prior
\* owner.
C12_PriorOwnerKept ==
    /\ Returned
    /\ ~host.pwd_pi
    /\ pre.cfg.exists
    /\ wc.fixup.chown_ok
    /\ meta.uid = "alice"
    /\ meta.gid = "alice"

\* The ownership rule without the proviso: it is to hold whether or not the
\* chown succeeds.
C12_OwnerWhateverChownDoes ==
    Returned =>
        /\ host.pwd_pi => (meta.uid = "pi" /\ meta.gid = ConfiguredGid)
        /\ (~host.pwd_pi /\ pre.cfg.exists) =>
               (meta.uid = pre.meta.uid /\ meta.gid = pre.meta.gid)

\* C13: after a _write_config that returned over a file that existed before,
\* the file's permission bits are those it had before the write, whether or
\* not the owner change succeeded.
C13_ModeRestored ==
    (Returned /\ pre.cfg.exists) => meta.mode = pre.meta.mode

\* What the code does: the chmod follows the chown inside one try, so a chown
\* that raises skips it, and the file keeps the bits of the temporary file
\* even where the chmod would have succeeded.
ChmodSkippedWhenChownFails ==
    (Returned /\ pre.cfg.exists) =>
        meta.mode = IF wc.fixup.chown_ok /\ wc.fixup.chmod_ok
                    THEN pre.meta.mode ELSE TempStat.mode

\* A chown that raised while the chmod would have succeeded.
ChownFailedOverPriorFile ==
    /\ Returned
    /\ pre.cfg.exists
    /\ ~wc.fixup.chown_ok
    /\ wc.fixup.chmod_ok
    /\ meta.mode = "0600"
    /\ pre.meta.mode = "0644"

\* Every system call of the fix-up succeeded.
FixupWentThrough ==
    wc.fixup.dir_ok /\ wc.fixup.chown_ok /\ wc.fixup.chmod_ok

\* C17: after a _write_config that returned and found no prior version, the
\* fix-up falls back on the parent directory: when the stat of the directory
\* and the chown succeed and the configured identity does not resolve, the
\* file has the directory's owner and group; when the stat, the chown and
\* the chmod all succeed the file has the directory's permission bits, and
\* otherwise it keeps the bits it was created with.
C17_NewFileTakesDirectoryStat ==
    (Returned /\ ~pre.cfg.exists) =>
        /\ (~host.pwd_pi /\ wc.fixup.dir_ok /\ wc.fixup.chown_ok) =>
               (meta.uid = DirStat.uid /\ meta.gid = DirStat.gid)
        /\ meta.mode = IF FixupWentThrough THEN DirStat.mode ELSE TempStat.mode

\* A new file on a host without the configured user ends up with the
\* directory's owner, group and bits.
C17_NewFileLikeDirectory ==
    /\ Returned
    /\ ~pre.cfg.exists
    /\ ~host.pwd_pi
    /\ FixupWentThrough
    /\ meta = DirStat

\* The fallback without the provisos: the directory's owner whenever the
\* identity does not resolve, and the directory's bits whenever the chown
\* succeeds.
C17_NewFileAlwaysLikeDirectory ==
    (Returned /\ ~pre.cfg.exists) =>
        /\ ~host.pwd_pi => (meta.uid = DirStat.uid /\ meta.gid = DirStat.gid)
        /\ wc.fixup.chown_ok => meta.mode = DirStat.mode

----------------------------------------------------------------------------
(* SpecProvision: _provision_wifi called again and again on a host without *)
(* nmcli, every call successful.                                           *)

MaxProvisions == 3

\* Passphrases of eight and more characters holding a closing brace, and the
\* text of an ssid line.
Psk_brace == <<"p", "a", "}", "s", "s", "w", "0", "r", "d">>
Psk_quoted == <<"s", "s", "i", "d", "=", "\"", "N", "1", "\"">>

ProvisionSsids == {N_one, N_two}
ProvisionPsks == {Psk_a, Psk_b, Psk_brace, Psk_quoted}

Preamble == <<"c", "=", "G", "B", "\n">>

\* fn.blocks lists, in the order of the file, the <<ssid, psk>> whose block
\* the file is to hold: those it started with and those provisioned since,
\* the latest passphrase for each ssid; fn.psks is every passphrase the file
\* was given.
InitProvision ==
    /\ AtRest
    /\ bak = NoFile /\ cfg = NoFile /\ meta = NoStat /\ net = NoNet
    /\ host = [PiHost EXCEPT !.nmcli = FALSE]
    /\ \/ /\ wpa = NoFile
          /\ fn = [op |-> "provision", n |-> 0, preamble |-> <<>>,
                   blocks |-> <<>>, psks |-> {}]
       \/ /\ wpa = File(Preamble \o NetworkBlock(N_one, Psk_a) \o
                        <<"\n", "\n">> \o NetworkBlock(N_two, Psk_a))
          /\ fn = [op |-> "provision", n |-> 0, preamble |-> Preamble,
                   blocks |-> <<<<N_one, Psk_a>>, <<N_two, Psk_a>>>>,
                   psks |-> {Psk_a}]

\* _provision_wifi(ssid, psk) on the fallback path, lines 438-469, returning
\* (True, "reconfigured").
ProvisionCall ==
    /\ fn.op = "provision"
    /\ fn.n < MaxProvisions
    /\ \E ssid \in ProvisionSsids, psk \in ProvisionPsks :
          /\ wpa' = File(ProvisionedData(wpa, ssid, psk))
          /\ fn' = [fn EXCEPT
                      !.n = @ + 1,
                      !.psks = @ \cup {psk},
                      !.blocks = Append(SelectSeq(@, LAMBDA b : b[1] # ssid),
                                        <<ssid, psk>>)]
    /\ net' = [net EXCEPT !.reconfigures = @ + 1]
    /\ UNCHANGED <<cfg, bak, tmp, meta, host, pc, req, updates, wc, notes,
                   log, pre, nreq>>

NextProvision == ProvisionCall

SpecProvision == InitProvision /\ [][NextProvision]_vars

NonSpace(text) == SelectSeq(text, LAMBDA c : ~IsSpace(c))

RECURSIVE BlocksText(_)
BlocksText(blocks) ==
    IF blocks = <<>> THEN <<>>
    ELSE NonSpace(NetworkBlock(blocks[1][1], blocks[1][2])) \o
         BlocksText(Tail(blocks))

\* C14: after any sequence of successful provisionings on the fallback path
\* the credential file holds, white space aside, what it held outside network
\* blocks followed by exactly one block for each ssid: the latest provisioned
\* one for a provisioned ssid, the unchanged one for every other.
C14_OneBlockPerSsid ==
    fn.op = "provision" =>
        NonSpace(wpa.data) = NonSpace(fn.preamble) \o BlocksText(fn.blocks)

\* No passphrase written to the file so far holds a closing brace or an ssid line.
PlainPsks == fn.psks \subseteq {Psk_a, Psk_b}

\* What the substitution achieves: the replacement is whole as long as every
\* block in the file is free of "}" and of other networks' ssid lines.
ReplaceWholeForPlainPsks ==
    (fn.op = "provision" /\ PlainPsks) =>
        NonSpace(wpa.data) = NonSpace(fn.preamble) \o BlocksText(fn.blocks)

\* A network provisioned three times over a file that held it and another.
ReprovisionedThrice ==
    /\ fn.op = "provision"
    /\ fn.n = 3
    /\ fn.blocks = <<<<N_two, Psk_a>>, <<N_one, Psk_b>>>>
    /\ wpa.data = Preamble \o NetworkBlock(N_two, Psk_a) \o <<"\n", "\n">> \o
                  NetworkBlock(N_one, Psk_b) \o <<"\n">>

----------------------------------------------------------------------------
(* Properties of SpecPatch: sections created by the write *)

\* The sections an UpdateSet touches.
Touched(u) == {e[1] : e \in Named(u)}

\* The header lines of a text that name section.
Headers(data, section) ==
    LET raw == SplitLines(data)
    IN  {i \in 1..Len(raw) : IsHeader(raw[i]) /\ HeaderName(raw[i]) = section}

\* "[section]" and under it one "key : value" line for each key the UpdateSet
\* names in the section.
NewSection(u, section) ==
    LET e == Edits(u)
        F[n \in 0..Len(e)] ==
            IF n = 0 THEN <<"[">> \o section \o <<"]", "\n">>
            ELSE IF e[n][1] = section /\ Has(e[n][3])
                 THEN F[n - 1] \o e[n][2] \o <<" ", ":", " ">> \o
                      PyStr(e[n][3]) \o <<"\n">>
                 ELSE F[n - 1]
    IN  F[Len(e)]

\* The new sections of an UpdateSet none of whose sections the file has, a
\* blank line between them.
Appended(u) ==
    IF Touched(u) = {S_base, S_epd2in13v3}
    THEN NewSection(u, S_base) \o <<"\n">> \o NewSection(u, S_epd2in13v3)
    ELSE IF S_base \in Touched(u) THEN NewSection(u, S_base)
    ELSE NewSection(u, S_epd2in13v3)

\* The bytes of the file as they are, ended by a newline if they were not,
\* and a blank line after them when the last line is not blank.
Kept(f) ==
    LET d     == IF f.exists THEN f.data ELSE <<>>
        ended == IF d # <<>> /\ ~endswith_nl(d) THEN d \o <<"\n">> ELSE d
        raw   == SplitLines(ended)
    IN  IF ended # <<>> /\ strip(raw[Len(raw)]) # <<>>
        THEN ended \o <<"\n">> ELSE ended

Written == fn.op = "patch" /\ fn.runs >= 1

NoHeaderOfTouched ==
    \A s \in Touched(fn.upd) :
        Headers(IF fn.orig.exists THEN fn.orig.data ELSE <<>>, s) = {}

\* C15: base.ticker = "ABC" applied to an empty or missing file yields
\* "[base]" followed by "ticker : ABC"; a touched section whose header is
\* missing has exactly one header after the write; and when every touched
\* section is missing the file is its prior bytes, an ensured trailing newline
\* and a blank line after a non-blank last line, then the new sections.
C15_NewSectionAppended ==
    Written =>
        /\ \A s \in Touched(fn.upd) :
               Headers(IF fn.orig.exists THEN fn.orig.data ELSE <<>>, s) = {}
                   => Cardinality(Headers(fn.after[1].data, s)) = 1
        /\ NoHeaderOfTouched =>
               fn.after[1].data = Kept(fn.orig) \o Appended(fn.upd)
        /\ (fn.orig \in {NoFile, File(<<>>)} /\
            fn.upd = [NoUpdates EXCEPT !.base.ticker = JStr(V_ABC)]) =>
               fn.after[1].data = L_base \o <<"\n">> \o K_ticker \o
                                  <<" ", ":", " ">> \o V_ABC \o <<"\n">>

\* What holds: the same, for files whose lines end in "\n"; the read in text
\* mode turns every "\r\n" of the prior content into "\n".
NewSectionAppendedToLfFile ==
    (Written /\ (fn.orig.exists => \A i \in 1..Len(fn.orig.data) :
                                      fn.orig.data[i] # "\r")) =>
        /\ \A s \in Touched(fn.upd) :
               Headers(IF fn.orig.exists THEN fn.orig.data ELSE <<>>, s) = {}
                   => Cardinality(Headers(fn.after[1].data, s)) = 1
        /\ NoHeaderOfTouched =>
               fn.after[1].data = Kept(fn.orig) \o Appended(fn.upd)

\* A section appended to a file with "\r\n" line ends.
SectionAppendedToCrlfFile ==
    /\ Written
    /\ NoHeaderOfTouched
    /\ fn.orig = File(FileText(<<L_base, L_ticker>>, CRLF, TRUE))
    /\ fn.after[1].data = FileText(<<L_base, L_ticker>>, LF, TRUE) \o <<"\n">> \o
                          Appended(fn.upd)

\* The example: a missing file given base.ticker = "ABC".
TickerWrittenToMissingFile ==
    /\ Written
    /\ fn.orig = NoFile
    /\ fn.upd = [NoUpdates EXCEPT !.base.ticker = JStr(V_ABC)]
    /\ fn.after[1].data = L_base \o <<"\n">> \o K_ticker \o
                          <<" ", ":", " ">> \o V_ABC \o <<"\n">>

----------------------------------------------------------------------------
(* Properties of SpecPatch: the written file read back *)

\* _load_config_values(CONFIG_PATH) after the first write; the wifi section
\* plays no part.
ReadBack == _load_config_values(fn.after[1], PiHost, NoReport, NoFile, TRUE)

\* A value written and the value read for it: a string is the same string,
\* a number is a number of the same value.
SameValue(written, read) ==
    IF written.t = "str" THEN read = written
    ELSE read.t \in {"int", "float"} /\ ToFloat(read) = ToFloat(written)

\* The (written, read) pairs of the keys the UpdateSet names.
WrittenAndRead ==
    LET u == fn.upd
        out == ReadBack
    IN  {wr \in {<<u.base.refresh_interval_minutes,
                   out.base.refresh_interval_minutes>>,
                 <<u.base.data_range_days, out.base.data_range_days>>,
                 <<u.base.data_api_base_url, out.base.data_api_base_url>>,
                 <<u.base.ticker, out.base.ticker>>,
                 <<u.epd2in13v3.mode, out.epd2in13v3.mode>>} : Has(wr[1])}

\* C16: after a _write_config that returned, the read path gives for every
\* (section, key) of the UpdateSet the value written, for every initial file
\* and every UpdateSet of the validator, values holding "#" or ";" and files
\* holding the key on a line with a ";" comment included.
C16_WriteThenRead ==
    Written => \A wr \in WrittenAndRead : SameValue(wr[1], wr[2])

\* No string of the UpdateSet holds a "#" or a ";".
PlainValues ==
    \A e \in Named(fn.upd) :
        \A i \in 1..Len(e[3].s) : e[3].s[i] \notin {"#", ";"}

\* The file ended in a newline, or was empty or missing.
EndedInNewline == fn.orig.exists => (fn.orig.data = <<>> \/ endswith_nl(fn.orig.data))

\* What holds: the round trip for values free of "#" and ";" written to a
\* file whose last line is ended, a ";" comment line of the key included.
RoundTripOfPlainValues ==
    (Written /\ PlainValues /\ EndedInNewline) =>
        \A wr \in WrittenAndRead : SameValue(wr[1], wr[2])

\* The key was on a line with a ";" comment, and the value written is read.
ReadBackPastSemicolonLine ==
    /\ Written
    /\ fn.orig = File(FileText(<<L_base, L_semi>>, LF, TRUE))
    /\ fn.upd = [NoUpdates EXCEPT !.base.ticker = JStr(V_ABC)]
    /\ ReadBack.base.ticker = JStr(V_ABC)

\* "A#B" written as the ticker reads back as "A".
HashValueReadsShort ==
    /\ Written
    /\ fn.upd = [NoUpdates EXCEPT !.base.ticker = JStr(T_AhB)]
    /\ ReadBack.base.ticker = JStr(<<"A">>)

============================================================================
